---- MODULE Spec2Model ----
(***************************************************************************)
(* gh-app-token: issuing a GitHub App installation token.                  *)
(*                                                                         *)
(*   cmd/root/root.go   the command: flags, environment, validateFlags,    *)
(*                      RunE, getToken, Execute                            *)
(*   pkg/app/app.go     AppToken: New / generateJWT / GetToken /           *)
(*                      GetTokenFromOrg / GetTokenFromRepo /               *)
(*                      GetTokenFromUser (go-github client)                *)
(*   pkg/auth/auth.go   the older implementation: GenerateJWT,             *)
(*                      GetInstallationToken, GetInstallationIDFrom*       *)
(*                                                                         *)
(* Go strings are modelled as sequences of one-character strings, so that  *)
(* strings.Split, strconv.ParseInt and strconv.FormatInt are computed.     *)
(* Errors are modelled as the chain of their messages, outermost first     *)
(* (fmt.Errorf("...: %w", err) puts a message in front of the chain).      *)
(***************************************************************************)
EXTENDS Integers, Sequences, FiniteSets, TLC

VARIABLES
    pc,              \* position of the run / of the current library call
    appID,           \* root.go globals, set by flag parsing and PersistentPreRunE
    installationID,
    org,
    repo,
    user,
    privateKeyPath,
    changed,         \* selector flags given on the command line (pflag Changed)
    env,             \* what os.Getenv returned in PersistentPreRunE
    appToken,        \* *app.AppToken: the client with its auth token, or Nil
    ctxDone,         \* the NotifyContext context has been cancelled
    inflight,        \* the request in flight, or Nil
    calls,           \* the requests issued by the call in progress, in order
    resps,           \* the responses it has received, in order
    ret,             \* (token, err) returned by the last core operation
    cmdErr,          \* the error rootCmd.Execute() returns
    stdout,
    stderr,
    exitCode,        \* -1 while the process runs
    keyReads,        \* what os.ReadFile found at the key path, call by call
    signed,          \* JWTs signed so far, in order
    op               \* library call in progress: name, arguments, number

vars == <<pc, appID, installationID, org, repo, user, privateKeyPath, changed,
          env, appToken, ctxDone, inflight, calls, resps, ret, cmdErr, stdout,
          stderr, exitCode, keyReads, signed, op>>

globals == <<appID, installationID, org, repo, user, privateKeyPath>>

-----------------------------------------------------------------------------
(* Bounds of the model *)

MaxId == 2          \* installation ids 0..MaxId
MaxRepoLen == 3     \* longest repo string given to the library entry points
MaxOps == 2         \* library calls in one behaviour
MaxTicks == 3       \* clock readings, half a second apart

-----------------------------------------------------------------------------
(* Values *)

Nil == [nil |-> TRUE]
NoErr == << >>
Empty == << >>

Chars == {"a", "/"}
Strs(n) == UNION {[1..k -> Chars] : k \in 0..n}

Ids == 0..MaxId
AppIds == {0, 7}
OrgNames == {Empty, <<"o">>}
UserNames == {Empty, <<"u">>}
KeyPaths == {Empty, <<"k">>}
\* repo values of the command line: every shape strings.Split tells apart
RepoFlags == {Empty, <<"a">>, <<"a", "/", "a">>, <<"a", "/">>, <<"/", "a">>,
              <<"a", "/", "a", "/", "a">>}
Tokens == {Empty, <<"t">>}

E(msg) == <<msg>>
Wrap(msg, err) == <<msg>> \o err

-----------------------------------------------------------------------------
(* strconv and strings *)

DigitChars == <<"0", "1", "2", "3", "4", "5", "6", "7", "8", "9">>
IsDigit(c) == \E d \in 1..10 : DigitChars[d] = c
DigitVal(c) == (CHOOSE d \in 1..10 : DigitChars[d] = c) - 1

RECURSIVE DigitsVal(_)
DigitsVal(s) ==
    IF s = Empty THEN 0
    ELSE 10 * DigitsVal(SubSeq(s, 1, Len(s) - 1)) + DigitVal(s[Len(s)])

\* strconv.ParseInt(s, 10, 64): optional sign, then one or more digits
ParseInt(s) ==
    LET body == IF s # Empty /\ s[1] \in {"+", "-"} THEN Tail(s) ELSE s
        good == body # Empty /\ \A i \in 1..Len(body) : IsDigit(body[i])
    IN  IF ~good THEN [val |-> 0, err |-> E("strconv.ParseInt: invalid syntax")]
        ELSE [val |-> IF s[1] = "-" THEN 0 - DigitsVal(body) ELSE DigitsVal(body),
              err |-> NoErr]

RECURSIVE NatDigits(_)
NatDigits(n) ==
    IF n < 10 THEN <<DigitChars[n + 1]>>
    ELSE NatDigits(n \div 10) \o <<DigitChars[(n % 10) + 1]>>

\* strconv.FormatInt(n, 10)
FormatInt(n) == IF n < 0 THEN <<"-">> \o NatDigits(0 - n) ELSE NatDigits(n)

\* strings.Split(s, "/")
RECURSIVE Split(_)
Split(s) ==
    IF \A i \in 1..Len(s) : s[i] # "/" THEN <<s>>
    ELSE LET i == CHOOSE k \in 1..Len(s) :
                      s[k] = "/" /\ \A j \in 1..(k - 1) : s[j] # "/"
         IN  <<SubSeq(s, 1, i - 1)>> \o Split(SubSeq(s, i + 1, Len(s)))

-----------------------------------------------------------------------------
(* cmd/root/root.go: validateFlags *)

\* validateFlags without the check of the app id
validateFlags_NoAppID(a, k, i, o, r, u) ==
    IF k = Empty THEN E("private key path is required")
    ELSE IF i = 0 /\ o = Empty /\ r = Empty /\ u = Empty
         THEN E("--installation-id, --org, --repo, or --user is required")
    ELSE IF i # 0 /\ (o # Empty \/ r # Empty \/ u # Empty)
         THEN E("--installation-id and --org, --repo, or --user cannot be used together")
    ELSE IF \/ (o # Empty /\ r # Empty)
            \/ (o # Empty /\ u # Empty)
            \/ (r # Empty /\ u # Empty)
         THEN E("--org, --repo, or --user cannot be used together")
    ELSE NoErr

\* validateFlags with the pair (repo, user) left out of the last check
validateFlags_PairMissed(a, k, i, o, r, u) ==
    IF a = 0 THEN E("app ID is required")
    ELSE IF k = Empty THEN E("private key path is required")
    ELSE IF i = 0 /\ o = Empty /\ r = Empty /\ u = Empty
         THEN E("--installation-id, --org, --repo, or --user is required")
    ELSE IF i # 0 /\ (o # Empty \/ r # Empty \/ u # Empty)
         THEN E("--installation-id and --org, --repo, or --user cannot be used together")
    ELSE IF \/ (o # Empty /\ r # Empty)
            \/ (o # Empty /\ u # Empty)
         THEN E("--org, --repo, or --user cannot be used together")
    ELSE NoErr

validateFlags(a, k, i, o, r, u) ==
    IF a = 0 THEN E("app ID is required")
    ELSE IF k = Empty THEN E("private key path is required")
    ELSE IF i = 0 /\ o = Empty /\ r = Empty /\ u = Empty
         THEN E("--installation-id, --org, --repo, or --user is required")
    ELSE IF i # 0 /\ (o # Empty \/ r # Empty \/ u # Empty)
         THEN E("--installation-id and --org, --repo, or --user cannot be used together")
    ELSE IF \/ (o # Empty /\ r # Empty)
            \/ (o # Empty /\ u # Empty)
            \/ (r # Empty /\ u # Empty)
         THEN E("--org, --repo, or --user cannot be used together")
    ELSE NoErr

-----------------------------------------------------------------------------
(* cmd/root/root.go: PersistentPreRunE, the environment behind unset flags *)

EnvInts == {Empty, <<"2">>, <<"x">>}
\* the values of the environment differ from those of the command line
Envs == [appID : EnvInts, privateKey : {Empty, <<"e">>}, installationID : EnvInts,
         org : {Empty, <<"p">>}, repo : {Empty, <<"b", "/", "b">>},
         user : {Empty, <<"v">>}]
NoEnv == [appID |-> Empty, privateKey |-> Empty, installationID |-> Empty,
          org |-> Empty, repo |-> Empty, user |-> Empty]

\* a numeric setting: the flag if it is non-zero, else the parsed variable
EnvInt(flag, value) ==
    IF flag = 0 /\ value # Empty THEN ParseInt(value)
    ELSE [val |-> flag, err |-> NoErr]

\* a string setting taken from the variable whenever it is set
EnvStr_EnvFirst(flag, value) == IF value # Empty THEN value ELSE flag

\* a string setting: the flag if it is non-empty, else the variable
EnvStr(flag, value) == IF flag = Empty THEN value ELSE flag

\* PersistentPreRunE leaving the selectors of the environment aside once a
\* selector is given on the command line
PreRun_FlagWins(g, e) ==
    LET chosen == \/ g.installationID # 0
                  \/ g.org # Empty
                  \/ g.repo # Empty
                  \/ g.user # Empty
        a == EnvInt(g.appID, e.appID)
        k == EnvStr(g.privateKeyPath, e.privateKey)
        i == IF chosen THEN [val |-> g.installationID, err |-> NoErr]
             ELSE EnvInt(g.installationID, e.installationID)
    IN  IF a.err # NoErr
        THEN [g EXCEPT !.appID = a.val,
                       !.err = Wrap("invalid GH_APP_TOKEN_APP_ID", a.err)]
        ELSE IF i.err # NoErr
        THEN [g EXCEPT !.appID = a.val, !.privateKeyPath = k,
                       !.installationID = i.val,
                       !.err = Wrap("invalid GH_APP_TOKEN_INSTALLATION_ID", i.err)]
        ELSE [appID |-> a.val, privateKeyPath |-> k, installationID |-> i.val,
              org |-> IF chosen THEN g.org ELSE EnvStr(g.org, e.org),
              repo |-> IF chosen THEN g.repo ELSE EnvStr(g.repo, e.repo),
              user |-> IF chosen THEN g.user ELSE EnvStr(g.user, e.user),
              err |-> NoErr]

\* the globals after PersistentPreRunE and the error it returns; an
\* unparsable number returns at once and leaves the later settings unmerged
PreRun(g, e) ==
    LET a == EnvInt(g.appID, e.appID)
        k == EnvStr(g.privateKeyPath, e.privateKey)
        i == EnvInt(g.installationID, e.installationID)
    IN  IF a.err # NoErr
        THEN [g EXCEPT !.appID = a.val,
                       !.err = Wrap("invalid GH_APP_TOKEN_APP_ID", a.err)]
        ELSE IF i.err # NoErr
        THEN [g EXCEPT !.appID = a.val, !.privateKeyPath = k,
                       !.installationID = i.val,
                       !.err = Wrap("invalid GH_APP_TOKEN_INSTALLATION_ID", i.err)]
        ELSE [appID |-> a.val, privateKeyPath |-> k, installationID |-> i.val,
              org |-> EnvStr(g.org, e.org), repo |-> EnvStr(g.repo, e.repo),
              user |-> EnvStr(g.user, e.user), err |-> NoErr]

-----------------------------------------------------------------------------
(* pkg/app/app.go and pkg/auth/auth.go: the two JWT signers.  Time is in    *)
(* milliseconds; a NumericDate and time.Unix() keep whole seconds.          *)

Minute == 60000
SkewSeconds == 60
Times == {100000 + 500 * k : k \in 0..MaxTicks}
Unix(t) == t \div 1000

\* what the key path holds: no file, a file that cannot be read, bytes that
\* are no PEM block, a PEM block that is no RSA private key, an RSA private
\* key in PKCS#1 or in PKCS#8
FileKinds == {"missing", "unreadable", "notpem", "notrsa", "pkcs1", "pkcs8"}

\* the error of os.ReadFile
ReadFileErr(file) ==
    IF file = "missing" THEN E("open: no such file or directory")
    ELSE IF file = "unreadable" THEN E("open: permission denied")
    ELSE NoErr

NoJWT == [iss |-> [kind |-> "none", s |-> Empty, n |-> 0], iat |-> 0, exp |-> 0]

\* generateJWT accepting any PEM block as a key
AppKeyErr_AnyPEM(file) ==
    IF ReadFileErr(file) # NoErr
    THEN Wrap("failed to read private key file", ReadFileErr(file))
    ELSE IF file = "notpem"
    THEN Wrap("failed to load private key", E("key must be a PEM encoded key"))
    ELSE NoErr

\* jwt.ParseRSAPrivateKeyFromPEM after os.ReadFile (app.go 32-40)
AppKeyErr(file) ==
    IF ReadFileErr(file) # NoErr
    THEN Wrap("failed to read private key file", ReadFileErr(file))
    ELSE IF file = "notpem"
    THEN Wrap("failed to load private key", E("key must be a PEM encoded key"))
    ELSE IF file = "notrsa"
    THEN Wrap("failed to load private key", E("key is not a valid RSA private key"))
    ELSE NoErr

\* the claims app.generateJWT signs at time t
AppClaims(a, t) ==
    LET now == t - Minute
    IN  [iss |-> [kind |-> "string", s |-> FormatInt(a), n |-> 0],
         iat |-> Unix(now),
         exp |-> Unix(now + 10 * Minute)]

generateJWT(a, file, t) ==
    IF AppKeyErr(file) # NoErr THEN [jwt |-> NoJWT, err |-> AppKeyErr(file)]
    ELSE [jwt |-> AppClaims(a, t), err |-> NoErr]

\* the claims auth.GenerateJWT signs at time t
AuthClaims(a, t) ==
    [iss |-> [kind |-> "number", s |-> Empty, n |-> a],
     iat |-> Unix(t) - SkewSeconds,
     exp |-> Unix(t + 10 * Minute)]

\* auth.LoadPrivateKey: pem.Decode, then x509.ParsePKCS1PrivateKey
LoadPrivateKey(file) ==
    IF ReadFileErr(file) # NoErr
    THEN Wrap("failed to read private key file", ReadFileErr(file))
    ELSE IF file = "notpem" THEN E("failed to decode PEM block")
    ELSE IF file \in {"notrsa", "pkcs8"}
    THEN Wrap("failed to parse private key", E("x509: failed to parse"))
    ELSE NoErr

\* a signature as the model remembers it: the signer, its inputs, the claims
Signed(by, a, t, jwt) == [by |-> by, appID |-> a, now |-> t, jwt |-> jwt]

\* the app id an iss claim names
IssValue(iss) == IF iss.kind = "string" THEN ParseInt(iss.s).val ELSE iss.n

-----------------------------------------------------------------------------
(* The remote service, as go-github's Apps calls see it *)

DefaultHost == <<"g">>
Hosts == {Empty, <<"h">>, <<"%">>}

Causes == {"non-2xx", "network", "malformed body"}
\* a response: the transport's error, and the id and token fields of the body
OkLookups == {[err |-> NoErr, id |-> i, token |-> Empty] : i \in Ids}
FailedLookups == {[err |-> E(c), id |-> 0, token |-> Empty] : c \in Causes}
OkExchanges == {[err |-> NoErr, id |-> 0, token |-> t] : t \in Tokens}
FailedExchanges == {[err |-> E(c), id |-> 0, token |-> t] : c \in Causes, t \in Tokens}
Aborted == [err |-> E("context canceled"), id |-> 0, token |-> Empty]

NoOp == [fn |-> "none", id |-> 0, a |-> Empty, b |-> Empty, err |-> NoErr, n |-> 0]
NoRet == [token |-> Empty, id |-> 0, err |-> NoErr]

\* a request as sent: the endpoint, its path arguments, the bearer JWT
Request(kind, target, id) ==
    [kind |-> kind, target |-> target, id |-> id,
     jwt |-> appToken.jwt, host |-> appToken.host, n |-> op'.n]

IsLookup(req) == req.kind \in {"org", "repo", "user"}
Lookups(cs) == {k \in 1..Len(cs) : IsLookup(cs[k])}
Exchanges(cs) == {k \in 1..Len(cs) : cs[k].kind = "exchange"}

-----------------------------------------------------------------------------
(* pkg/app/app.go: AppToken's methods.  A method that reaches the network   *)
(* issues its request and waits; LookupReturn and ExchangeReturn continue   *)
(* it when the response arrives.                                            *)

\* calls keeps the requests of the call in progress
Issue(req, at) ==
    /\ inflight' = req
    /\ calls' = Append(SelectSeq(calls, LAMBDA q : q.n = req.n), req)
    /\ pc' = at
    /\ UNCHANGED ret

Return(token, err) ==
    /\ ret' = [token |-> token, id |-> 0, err |-> err]
    /\ pc' = "returned"
    /\ inflight' = Nil
    /\ calls' = SelectSeq(calls, LAMBDA q : q.n = op'.n)

\* GetID reading nothing from the response
GetID_Zero(resp) == 0

\* installation.GetID(): the id field of the lookup response
GetID(resp) == resp.id

\* GetToken handing back the token field beside the error
GetTokenResult_Partial(resp) ==
    IF resp.err # NoErr
    THEN [token |-> resp.token,
          err |-> Wrap("failed to create installation token", resp.err)]
    ELSE [token |-> resp.token, err |-> NoErr]

\* GetToken refusing a response without a token
GetTokenResult_Validated(resp) ==
    IF resp.err # NoErr
    THEN [token |-> Empty,
          err |-> Wrap("failed to create installation token", resp.err)]
    ELSE IF resp.token = Empty
    THEN [token |-> Empty, err |-> E("empty installation token")]
    ELSE [token |-> resp.token, err |-> NoErr]

\* what GetToken returns for the response of CreateInstallationToken
GetTokenResult(resp) ==
    IF resp.err # NoErr
    THEN [token |-> Empty,
          err |-> Wrap("failed to create installation token", resp.err)]
    ELSE [token |-> resp.token, err |-> NoErr]

\* the lookup error without its cause
LookupErr_NoCause(kind, cause) ==
    IF kind = "org" THEN E("failed to find organization installation")
    ELSE IF kind = "repo" THEN E("failed to find repository installation")
    ELSE E("failed to find user installation")

\* the error a failed Find*Installation call is wrapped in
LookupErr(kind, cause) ==
    IF kind = "org" THEN Wrap("failed to find organization installation", cause)
    ELSE IF kind = "repo" THEN Wrap("failed to find repository installation", cause)
    ELSE Wrap("failed to find user installation", cause)

\* the preconditions of the three lookups
OrgPre(o) == IF o = Empty THEN E("org name is required") ELSE NoErr
RepoPre_OwnerOnly(owner, name) ==
    IF owner = Empty THEN E("owner and repo name are required") ELSE NoErr
RepoPre(owner, name) ==
    IF owner = Empty \/ name = Empty
    THEN E("owner and repo name are required") ELSE NoErr
UserPre(u) == IF u = Empty THEN E("user name is required") ELSE NoErr

GetToken(id) == Issue(Request("exchange", << >>, id), "exchange")

GetTokenFromOrg(o) ==
    IF OrgPre(o) # NoErr THEN Return(Empty, OrgPre(o))
    ELSE Issue(Request("org", <<o>>, 0), "lookup")

GetTokenFromRepo(owner, name) ==
    IF RepoPre(owner, name) # NoErr THEN Return(Empty, RepoPre(owner, name))
    ELSE Issue(Request("repo", <<owner, name>>, 0), "lookup")

GetTokenFromUser(u) ==
    IF UserPre(u) # NoErr THEN Return(Empty, UserPre(u))
    ELSE Issue(Request("user", <<u>>, 0), "lookup")

\* the call c begins
Invoke(c) ==
    CASE c.fn = "GetToken" -> GetToken(c.id)
      [] c.fn = "GetTokenFromOrg" -> GetTokenFromOrg(c.a)
      [] c.fn = "GetTokenFromRepo" -> GetTokenFromRepo(c.a, c.b)
      [] c.fn = "GetTokenFromUser" -> GetTokenFromUser(c.a)
      [] OTHER -> Return(Empty, c.err)

\* a waiting call that does not look at its context
Seen_NoContext(resp) == resp

\* the response the waiting call sees: a cancelled context aborts it
Seen(resp) == IF ctxDone THEN Aborted ELSE resp

\* Find*Installation returns: on an error the method returns it wrapped,
\* otherwise it goes on to GetToken for the id of the response
LookupReturn ==
    /\ pc = "lookup"
    /\ UNCHANGED <<globals, changed, env, appToken, ctxDone, cmdErr, stdout,
                   stderr, exitCode, keyReads, signed, op>>
    /\ \E r \in OkLookups \cup FailedLookups :
          LET resp == Seen(r)
          IN  /\ resps' = Append(resps, resp)
              /\ IF resp.err # NoErr
                 THEN Return(Empty, LookupErr(inflight.kind, resp.err))
                 ELSE GetToken(GetID(resp))

\* a CreateInstallationToken that is sent once more after an error
ExchangeReturn_Retry ==
    /\ pc = "exchange"
    /\ UNCHANGED <<globals, changed, env, appToken, ctxDone, cmdErr, stdout,
                   stderr, exitCode, keyReads, signed, op>>
    /\ \E r \in OkExchanges \cup FailedExchanges :
          LET resp == Seen(r)
          IN  /\ resps' = Append(resps, resp)
              /\ IF resp.err # NoErr /\ Cardinality(Exchanges(calls)) < 2
                 THEN GetToken(inflight.id)
                 ELSE Return(GetTokenResult(resp).token, GetTokenResult(resp).err)

\* CreateInstallationToken returns
ExchangeReturn ==
    /\ pc = "exchange"
    /\ UNCHANGED <<globals, changed, env, appToken, ctxDone, cmdErr, stdout,
                   stderr, exitCode, keyReads, signed, op>>
    /\ \E r \in OkExchanges \cup FailedExchanges :
          LET resp == Seen(r)
          IN  /\ resps' = Append(resps, resp)
              /\ Return(GetTokenResult(resp).token, GetTokenResult(resp).err)

-----------------------------------------------------------------------------
(* cmd/root/root.go: one run of the command *)

Selectors == {"installation-id", "org", "repo", "user"}

Init ==
    /\ pc = "start"
    /\ appID = 0
    /\ installationID = 0
    /\ org = Empty
    /\ repo = Empty
    /\ user = Empty
    /\ privateKeyPath = Empty
    /\ changed = {}
    /\ env = NoEnv
    /\ appToken = Nil
    /\ ctxDone = FALSE
    /\ inflight = Nil
    /\ calls = << >>
    /\ resps = << >>
    /\ ret = NoRet
    /\ cmdErr = NoErr
    /\ stdout = << >>
    /\ stderr = << >>
    /\ exitCode = -1
    /\ keyReads = << >>
    /\ signed = << >>
    /\ op = NoOp

\* the command returns err to Execute
Fail(err) ==
    /\ cmdErr' = err
    /\ pc' = "execute"

\* pflag stores the command line in the globals bound in init()
ParseFlags ==
    /\ pc = "start"
    /\ \E a \in AppIds, k \in KeyPaths, i \in Ids, o \in OrgNames,
          r \in RepoFlags, u \in UserNames :
          /\ appID' = a
          /\ privateKeyPath' = k
          /\ installationID' = i
          /\ org' = o
          /\ repo' = r
          /\ user' = u
          /\ changed' = {f \in Selectors :
                            \/ f = "installation-id" /\ i # 0
                            \/ f = "org" /\ o # Empty
                            \/ f = "repo" /\ r # Empty
                            \/ f = "user" /\ u # Empty}
    /\ pc' = "prerun"
    /\ UNCHANGED <<env, appToken, ctxDone, inflight, calls, resps, ret, cmdErr, stdout,
                   stderr, exitCode, keyReads, signed, op>>

PersistentPreRunE ==
    /\ pc = "prerun"
    /\ \E e \in Envs :
          LET g == PreRun([appID |-> appID, privateKeyPath |-> privateKeyPath,
                           installationID |-> installationID, org |-> org,
                           repo |-> repo, user |-> user, err |-> NoErr], e)
          IN  /\ env' = e
              /\ appID' = g.appID
              /\ privateKeyPath' = g.privateKeyPath
              /\ installationID' = g.installationID
              /\ org' = g.org
              /\ repo' = g.repo
              /\ user' = g.user
              /\ IF g.err # NoErr THEN Fail(g.err)
                 ELSE pc' = "flaggroups" /\ UNCHANGED cmdErr
    /\ UNCHANGED <<changed, appToken, ctxDone, inflight, calls, resps, ret, stdout,
                   stderr, exitCode, keyReads, signed, op>>

\* MarkFlagsMutuallyExclusive: cobra rejects two selector flags on the
\* command line, after the pre-run hooks and before RunE
ValidateFlagGroups ==
    /\ pc = "flaggroups"
    /\ IF Cardinality(changed) > 1
       THEN Fail(E("if any flags in the group are set none of the others can be"))
       ELSE pc' = "run" /\ UNCHANGED cmdErr
    /\ UNCHANGED <<globals, changed, env, appToken, ctxDone, inflight, calls, resps,
                   ret, stdout, stderr, exitCode, keyReads, signed, op>>

\* RunE, first statement
RunEValidate ==
    /\ pc = "run"
    /\ LET err == validateFlags(appID, privateKeyPath, installationID, org, repo, user)
       IN  IF err # NoErr THEN Fail(err)
           ELSE pc' = "new" /\ UNCHANGED cmdErr
    /\ UNCHANGED <<globals, changed, env, appToken, ctxDone, inflight, calls, resps,
                   ret, stdout, stderr, exitCode, keyReads, signed, op>>

\* app.New(appID, privateKeyPath): read the key, sign the JWT, build the client
RunENew ==
    /\ pc = "new"
    /\ \E file \in FileKinds, t \in Times :
          LET j == generateJWT(appID, file, t)
          IN  /\ keyReads' = Append(keyReads, file)
              /\ IF j.err # NoErr
                 THEN /\ Fail(Wrap("failed to create app token",
                                   Wrap("failed to create client", j.err)))
                      /\ UNCHANGED <<appToken, signed>>
                 ELSE /\ appToken' = [jwt |-> j.jwt, host |-> DefaultHost]
                      /\ signed' = Append(signed, Signed("app", appID, t, j.jwt))
                      /\ pc' = "host"
                      /\ UNCHANGED cmdErr
    /\ UNCHANGED <<globals, changed, env, ctxDone, inflight, calls, resps, ret, stdout,
                   stderr, exitCode, op>>

\* url.Parse of "https://<host>/" in WithEnterpriseURLs
WithEnterpriseErr(h) ==
    IF \E k \in 1..Len(h) : h[k] = "%"
    THEN Wrap("failed to create client", E("invalid URL escape"))
    ELSE NoErr

\* GH_HOST: the client is re-based on the enterprise host
RunEHost ==
    /\ pc = "host"
    /\ \E h \in Hosts :
          IF h = Empty THEN pc' = "getToken" /\ UNCHANGED <<appToken, cmdErr>>
          ELSE IF WithEnterpriseErr(h) # NoErr
          THEN /\ Fail(Wrap("failed to set enterprise base URL", WithEnterpriseErr(h)))
               /\ UNCHANGED appToken
          ELSE /\ appToken' = [appToken EXCEPT !.host = h]
               /\ pc' = "getToken"
               /\ UNCHANGED cmdErr
    /\ UNCHANGED <<globals, changed, env, ctxDone, inflight, calls, resps, ret, stdout,
                   stderr, exitCode, keyReads, signed, op>>

\* getToken without its first branch
Dispatch_NoInstallation(i, o, r, u) ==
    IF o # Empty THEN [NoOp EXCEPT !.fn = "GetTokenFromOrg", !.a = o]
    ELSE IF r # Empty
    THEN IF Len(Split(r)) # 2
         THEN [NoOp EXCEPT !.fn = "error",
                           !.err = E("repo must be in format 'owner/repo'")]
         ELSE [NoOp EXCEPT !.fn = "GetTokenFromRepo",
                           !.a = Split(r)[1], !.b = Split(r)[2]]
    ELSE IF u # Empty THEN [NoOp EXCEPT !.fn = "GetTokenFromUser", !.a = u]
    ELSE [NoOp EXCEPT !.fn = "error",
                      !.err = E("no installation ID, org, repo, or user provided")]

\* getToken's choice of the method to call
Dispatch(i, o, r, u) ==
    IF i # 0 THEN [NoOp EXCEPT !.fn = "GetToken", !.id = i]
    ELSE IF o # Empty THEN [NoOp EXCEPT !.fn = "GetTokenFromOrg", !.a = o]
    ELSE IF r # Empty
    THEN IF Len(Split(r)) # 2
         THEN [NoOp EXCEPT !.fn = "error",
                           !.err = E("repo must be in format 'owner/repo'")]
         ELSE [NoOp EXCEPT !.fn = "GetTokenFromRepo",
                           !.a = Split(r)[1], !.b = Split(r)[2]]
    ELSE IF u # Empty THEN [NoOp EXCEPT !.fn = "GetTokenFromUser", !.a = u]
    ELSE [NoOp EXCEPT !.fn = "error",
                      !.err = E("no installation ID, org, repo, or user provided")]

getToken ==
    /\ pc = "getToken"
    /\ op' = [Dispatch(installationID, org, repo, user) EXCEPT !.n = 1]
    /\ resps' = << >>
    /\ Invoke(op')
    /\ UNCHANGED <<globals, changed, env, appToken, ctxDone, cmdErr, stdout,
                   stderr, exitCode, keyReads, signed>>

\* os.Interrupt while a request is in flight cancels the context
Interrupt ==
    /\ pc \in {"lookup", "exchange"}
    /\ ~ctxDone
    /\ ctxDone' = TRUE
    /\ UNCHANGED <<pc, globals, changed, env, appToken, inflight, calls, resps, ret,
                   cmdErr, stdout, stderr, exitCode, keyReads, signed, op>>

\* RunE after getToken: the token is printed, or the error returned
RunEFinish ==
    /\ pc = "returned"
    /\ IF ret.err # NoErr
       THEN /\ cmdErr' = Wrap("failed to get token", ret.err)
            /\ UNCHANGED stdout
       ELSE /\ stdout' = Append(stdout, ret.token)
            /\ UNCHANGED cmdErr
    /\ pc' = "execute"
    /\ UNCHANGED <<globals, changed, env, appToken, ctxDone, inflight, calls, resps,
                   ret, stderr, exitCode, keyReads, signed, op>>

ExitStatus_Zero(err) == 0

\* the status the process exits with
ExitStatus(err) == IF err # NoErr THEN 1 ELSE 0

\* Execute: an error goes to standard error and the process exits 1
Execute ==
    /\ pc = "execute"
    /\ exitCode' = ExitStatus(cmdErr)
    /\ IF cmdErr # NoErr
       THEN stderr' = Append(stderr, cmdErr)
       ELSE UNCHANGED stderr
    /\ pc' = "exited"
    /\ UNCHANGED <<globals, changed, env, appToken, ctxDone, inflight, calls, resps,
                   ret, cmdErr, stdout, keyReads, signed, op>>

Next ==
    \/ ParseFlags
    \/ PersistentPreRunE
    \/ ValidateFlagGroups
    \/ RunEValidate
    \/ RunENew
    \/ RunEHost
    \/ getToken
    \/ LookupReturn
    \/ ExchangeReturn
    \/ Interrupt
    \/ RunEFinish
    \/ Execute

Spec == Init /\ [][Next]_vars

\* the steps the process takes by itself: every statement is followed by the
\* next, and a request in flight returns (with a response, a transport
\* error, or the context's error); the interrupt is left to the outside
RunSteps ==
    \/ ParseFlags
    \/ PersistentPreRunE
    \/ ValidateFlagGroups
    \/ RunEValidate
    \/ RunENew
    \/ RunEHost
    \/ getToken
    \/ LookupReturn
    \/ ExchangeReturn
    \/ RunEFinish
    \/ Execute

SpecFair == Spec /\ WF_vars(RunSteps)

-----------------------------------------------------------------------------
(* getToken on its own: called with an AppToken, whatever the package's     *)
(* selector variables hold                                                  *)

InitCore ==
    /\ pc = "getToken"
    /\ appID = 7
    /\ privateKeyPath = <<"k">>
    /\ installationID \in Ids
    /\ org \in OrgNames
    /\ repo \in RepoFlags
    /\ user \in UserNames
    /\ changed = {}
    /\ env = NoEnv
    /\ \E t \in Times :
          /\ appToken = [jwt |-> AppClaims(appID, t), host |-> DefaultHost]
          /\ signed = <<Signed("app", appID, t, AppClaims(appID, t))>>
    /\ ctxDone = FALSE
    /\ inflight = Nil
    /\ calls = << >>
    /\ resps = << >>
    /\ ret = NoRet
    /\ cmdErr = NoErr
    /\ stdout = << >>
    /\ stderr = << >>
    /\ exitCode = -1
    /\ keyReads = <<"pkcs1">>
    /\ op = NoOp

NextCore ==
    \/ getToken
    \/ LookupReturn
    \/ ExchangeReturn
    \/ Interrupt

SpecCore == InitCore /\ [][NextCore]_vars

-----------------------------------------------------------------------------
(* The packages used as libraries: one AppToken and a sequence of calls on  *)
(* it (pkg/app), and the functions of pkg/auth                              *)

InitLib ==
    /\ pc = "idle"
    /\ appID = 0
    /\ installationID = 0
    /\ org = Empty
    /\ repo = Empty
    /\ user = Empty
    /\ privateKeyPath = Empty
    /\ changed = {}
    /\ env = NoEnv
    /\ appToken = Nil
    /\ ctxDone = FALSE
    /\ inflight = Nil
    /\ calls = << >>
    /\ resps = << >>
    /\ ret = NoRet
    /\ cmdErr = NoErr
    /\ stdout = << >>
    /\ stderr = << >>
    /\ exitCode = -1
    /\ keyReads = << >>
    /\ signed = << >>
    /\ op = NoOp

Idle == pc \in {"idle", "returned"} /\ op.n < MaxOps

Names == {Empty, <<"a">>}

\* the calls a client of pkg/app can make
AppCalls ==
    {[NoOp EXCEPT !.fn = "GetToken", !.id = i] : i \in Ids}
    \cup {[NoOp EXCEPT !.fn = "GetTokenFromOrg", !.a = o] : o \in OrgNames}
    \cup {[NoOp EXCEPT !.fn = "GetTokenFromRepo", !.a = o, !.b = r] :
             o \in Names, r \in Names}
    \cup {[NoOp EXCEPT !.fn = "GetTokenFromUser", !.a = u] : u \in UserNames}

\* app.New(appID, privateKeyFile)
New ==
    /\ pc = "idle"
    /\ keyReads = << >>
    /\ \E a \in {7}, file \in FileKinds, t \in Times :
          LET j == generateJWT(a, file, t)
          IN  /\ keyReads' = Append(keyReads, file)
              /\ IF j.err # NoErr
                 THEN /\ ret' = [NoRet EXCEPT !.err = Wrap("failed to create client", j.err)]
                      /\ UNCHANGED <<appToken, signed>>
                 ELSE /\ appToken' = [jwt |-> j.jwt, host |-> DefaultHost]
                      /\ signed' = Append(signed, Signed("app", a, t, j.jwt))
                      /\ ret' = NoRet
    /\ UNCHANGED <<pc, globals, changed, env, ctxDone, inflight, calls, resps, cmdErr,
                   stdout, stderr, exitCode, op>>

\* a method of the AppToken is called
AppCall ==
    /\ Idle
    /\ appToken # Nil
    /\ \E c \in AppCalls :
          /\ op' = [c EXCEPT !.n = op.n + 1]
          /\ resps' = << >>
          /\ Invoke(op')
    /\ UNCHANGED <<globals, changed, env, appToken, ctxDone, cmdErr, stdout,
                   stderr, exitCode, keyReads, signed>>

\* the preconditions of the three lookups of pkg/auth
AuthOrgPre(o) == IF o = Empty THEN E("org name is required") ELSE NoErr
AuthRepoPre(r) ==
    IF r = Empty THEN E("repo name is required")
    ELSE IF Len(Split(r)) # 2 THEN E("repo must be in format 'owner/repo'")
    ELSE NoErr
AuthUserPre(u) == IF u = Empty THEN E("user name is required") ELSE NoErr

\* the JWT strings a caller of pkg/auth holds
HeldJWTs == {signed[k].jwt : k \in 1..Len(signed)} \cup {NoJWT}

\* getInstallationIDFromEndpoint through one of the three entry points: the
\* precondition on the argument, then one GET whose error is wrapped and
\* whose id is returned
AuthLookup(fn, kind, arg, pre, target) ==
    /\ Idle
    /\ op' = [NoOp EXCEPT !.fn = fn, !.a = arg, !.n = op.n + 1]
    /\ IF pre # NoErr
       THEN /\ ret' = [NoRet EXCEPT !.err = pre]
            /\ calls' = << >>
            /\ resps' = << >>
       ELSE \E jwt \in HeldJWTs, r \in OkLookups \cup FailedLookups :
               /\ calls' = <<[kind |-> kind, target |-> target, id |-> 0,
                              jwt |-> jwt, host |-> DefaultHost, n |-> op'.n]>>
               /\ resps' = <<r>>
               /\ ret' = IF r.err # NoErr
                         THEN [NoRet EXCEPT !.err = Wrap("failed to get installation ID", r.err)]
                         ELSE [NoRet EXCEPT !.id = r.id]
    /\ pc' = "returned"
    /\ UNCHANGED <<globals, changed, env, appToken, ctxDone, inflight, cmdErr,
                   stdout, stderr, exitCode, keyReads, signed>>

GetInstallationIDFromOrg ==
    \E o \in OrgNames :
        AuthLookup("GetInstallationIDFromOrg", "org", o, AuthOrgPre(o), <<o>>)

\* the endpoint is "repos/" + repo + "/installation": its path segments are
\* the segments of repo
GetInstallationIDFromRepo ==
    \E r \in Strs(MaxRepoLen) :
        AuthLookup("GetInstallationIDFromRepo", "repo", r, AuthRepoPre(r), Split(r))

GetInstallationIDFromUser ==
    \E u \in UserNames :
        AuthLookup("GetInstallationIDFromUser", "user", u, AuthUserPre(u), <<u>>)

\* auth.GetInstallationToken(jwtToken, installationID): one POST
GetInstallationToken ==
    /\ Idle
    /\ \E i \in Ids, jwt \in HeldJWTs, r \in OkExchanges \cup FailedExchanges :
          /\ op' = [NoOp EXCEPT !.fn = "GetInstallationToken", !.id = i,
                                !.n = op.n + 1]
          /\ calls' = <<[kind |-> "exchange", target |-> << >>, id |-> i,
                         jwt |-> jwt, host |-> DefaultHost, n |-> op'.n]>>
          /\ resps' = <<r>>
          /\ ret' = IF r.err # NoErr
                    THEN [NoRet EXCEPT !.err = Wrap("failed to get installation token", r.err)]
                    ELSE [NoRet EXCEPT !.token = r.token]
    /\ pc' = "returned"
    /\ UNCHANGED <<globals, changed, env, appToken, ctxDone, inflight, cmdErr,
                   stdout, stderr, exitCode, keyReads, signed>>

NextLib ==
    \/ New
    \/ AppCall
    \/ LookupReturn
    \/ ExchangeReturn
    \/ GetInstallationIDFromOrg
    \/ GetInstallationIDFromRepo
    \/ GetInstallationIDFromUser
    \/ GetInstallationToken

SpecLib == InitLib /\ [][NextLib]_vars

-----------------------------------------------------------------------------
(* The two signers on their own: an app id, and clock readings *)

JwtAppIds == {0, 7, 12, -3}

InitJWT ==
    /\ pc = "sign"
    /\ appID \in JwtAppIds
    /\ installationID = 0
    /\ org = Empty
    /\ repo = Empty
    /\ user = Empty
    /\ privateKeyPath = <<"k">>
    /\ changed = {}
    /\ env = NoEnv
    /\ appToken = Nil
    /\ ctxDone = FALSE
    /\ inflight = Nil
    /\ calls = << >>
    /\ resps = << >>
    /\ ret = NoRet
    /\ cmdErr = NoErr
    /\ stdout = << >>
    /\ stderr = << >>
    /\ exitCode = -1
    /\ keyReads = << >>
    /\ signed = << >>
    /\ op = NoOp

\* app.generateJWT(appID, privateKeyFile)
SignApp ==
    /\ pc = "sign"
    /\ op.n < MaxOps
    /\ \E file \in FileKinds, t \in Times :
          LET j == generateJWT(appID, file, t)
          IN  /\ keyReads' = Append(keyReads, file)
              /\ ret' = [NoRet EXCEPT !.err = j.err]
              /\ signed' = IF j.err # NoErr THEN signed
                           ELSE Append(signed, Signed("app", appID, t, j.jwt))
    /\ op' = [NoOp EXCEPT !.fn = "generateJWT", !.n = op.n + 1]
    /\ UNCHANGED <<pc, globals, changed, env, appToken, ctxDone, inflight, calls,
                   resps, cmdErr, stdout, stderr, exitCode>>

\* auth.GenerateJWT(appID, privateKey), the key already loaded
SignAuth ==
    /\ pc = "sign"
    /\ op.n < MaxOps
    /\ \E t \in Times :
          signed' = Append(signed, Signed("auth", appID, t, AuthClaims(appID, t)))
    /\ ret' = NoRet
    /\ op' = [NoOp EXCEPT !.fn = "GenerateJWT", !.n = op.n + 1]
    /\ UNCHANGED <<pc, globals, changed, env, appToken, ctxDone, inflight, calls,
                   resps, cmdErr, stdout, stderr, exitCode, keyReads>>

NextJWT == SignApp \/ SignAuth

SpecJWT == InitJWT /\ [][NextJWT]_vars

-----------------------------------------------------------------------------
(* Properties *)

SelectorCount ==
    Cardinality({f \in Selectors :
                    \/ f = "installation-id" /\ installationID # 0
                    \/ f = "org" /\ org # Empty
                    \/ f = "repo" /\ repo # Empty
                    \/ f = "user" /\ user # Empty})

\* the globals have their final values
AfterPreRun == pc \notin {"start", "prerun"}

\* exactly one of org, repo, user is selected, and no installation id
OneNameSelected == installationID = 0 /\ SelectorCount = 1

SelectedKind ==
    IF org # Empty THEN "org" ELSE IF repo # Empty THEN "repo" ELSE "user"

SelectedTarget ==
    IF org # Empty THEN <<org>> ELSE IF repo # Empty THEN Split(repo) ELSE <<user>>

\* C1: with one of org, repo, user selected, the first request is the lookup
\* of that kind for that name; an exchange is only ever the second request,
\* issued once the lookup has answered without error and for the id of that
\* answer; a successful lookup is followed by the exchange; and when both
\* answer without error the token returned, and printed, is the token of
\* the exchange's answer.
C1_LookupThenExchange ==
    (op.n = 1 /\ OneNameSelected) =>
        /\ \A k \in 1..Len(calls) :
              /\ k = 1 => /\ calls[k].kind = SelectedKind
                          /\ calls[k].target = SelectedTarget
              /\ k > 1 => /\ k = 2
                          /\ calls[k].kind = "exchange"
                          /\ Len(resps) >= 1
                          /\ resps[1].err = NoErr
                          /\ calls[k].id = resps[1].id
        /\ (Len(resps) >= 1 /\ resps[1].err = NoErr) => Len(calls) = 2
        /\ (Len(resps) = 2 /\ resps[1].err = NoErr /\ resps[2].err = NoErr) =>
              /\ ret = [token |-> resps[2].token, id |-> 0, err |-> NoErr]
              /\ pc = "exited" => stdout = <<resps[2].token>>

C1_Witness ==
    /\ pc = "exited"
    /\ repo = <<"a", "/", "a">>
    /\ Len(calls) = 2
    /\ calls[1].kind = "repo"
    /\ resps[1].id = 2
    /\ calls[2].id = 2
    /\ resps[2].token = <<"t">>
    /\ stdout = << <<"t">> >>

\* C2: with a non-zero installation id no lookup is ever issued, and the one
\* request of the run is the exchange for that id.
C2_ExplicitIdSkipsLookup ==
    installationID # 0 =>
        /\ Lookups(calls) = {}
        /\ Len(calls) <= 1
        /\ \A k \in 1..Len(calls) :
              calls[k].kind = "exchange" /\ calls[k].id = installationID
        /\ op.n = 1 => Len(calls) = 1

C2_Witness ==
    /\ pc = "exited"
    /\ installationID = 1
    /\ exitCode = 0
    /\ Len(calls) = 1
    /\ calls[1].id = 1

\* the settings validateFlags is documented to reject
ValidationFails == appID = 0 \/ privateKeyPath = Empty \/ SelectorCount # 1

\* C3: when the app id or the key path is missing, or not exactly one
\* selector is set, the run fails before the core: the key file is not read,
\* no JWT is signed, no client exists, no request is issued, nothing is
\* printed and the exit status is 1.
C3_ValidationBeforeCore ==
    (AfterPreRun /\ ValidationFails) =>
        /\ keyReads = << >>
        /\ signed = << >>
        /\ appToken = Nil
        /\ calls = << >>
        /\ pc \in {"flaggroups", "run", "execute", "exited"}
        /\ pc \in {"execute", "exited"} => cmdErr # NoErr
        /\ pc = "exited" => exitCode = 1 /\ stdout = << >>

C3_Witness ==
    /\ pc = "exited"
    /\ cmdErr = E("--installation-id, --org, --repo, or --user is required")
    /\ exitCode = 1
    /\ keyReads = << >>

ValidateErrs ==
    {E("app ID is required"), E("private key path is required"),
     E("--installation-id, --org, --repo, or --user is required"),
     E("--installation-id and --org, --repo, or --user cannot be used together"),
     E("--org, --repo, or --user cannot be used together")}

Accepted == appID # 0 /\ privateKeyPath # Empty /\ SelectorCount = 1

\* C4: validateFlags returns no error exactly when the app id is non-zero,
\* the key path non-empty and exactly one of the four selectors set: RunE
\* goes past it only then, and returns one of its errors only otherwise.
C4_ValidateFlagsIff ==
    /\ pc = "run" =>
          (validateFlags(appID, privateKeyPath, installationID, org, repo, user) = NoErr
              <=> Accepted)
    /\ pc \in {"new", "host", "getToken", "lookup", "exchange", "returned"} => Accepted
    /\ (pc \in {"execute", "exited"} /\ cmdErr \in ValidateErrs) => ~Accepted

C4_Witness ==
    /\ pc = "execute"
    /\ cmdErr = E("--org, --repo, or --user cannot be used together")
    /\ repo # Empty
    /\ user # Empty
    /\ org = Empty

\* the exchange has answered without error
Succeeded ==
    /\ Len(calls) >= 1
    /\ Len(resps) = Len(calls)
    /\ calls[Len(calls)].kind = "exchange"
    /\ resps[Len(resps)].err = NoErr

\* C5: nothing reaches standard error and no exit status exists before the
\* process exits; standard output only ever holds the one line of the token
\* of a successful exchange; the process exits 0 with that line and an empty
\* standard error when the exchange succeeded, and otherwise exits 1 with an
\* empty standard output and the error on standard error.
C5_OutputAndExitCode ==
    /\ pc # "exited" => exitCode = -1 /\ stderr = << >>
    /\ stdout # << >> => Succeeded /\ stdout = <<resps[Len(resps)].token>>
    /\ pc = "exited" =>
          IF Succeeded
          THEN exitCode = 0 /\ stdout = <<resps[Len(resps)].token>> /\ stderr = << >>
          ELSE exitCode = 1 /\ stdout = << >> /\ Len(stderr) = 1 /\ stderr[1] # NoErr

C5_Witness ==
    /\ pc = "exited"
    /\ exitCode = 1
    /\ Len(resps) = 2
    /\ resps[2].err = E("non-2xx")
    /\ stdout = << >>
    /\ stderr = <<cmdErr>>

AppFns == {"GetToken", "GetTokenFromOrg", "GetTokenFromRepo", "GetTokenFromUser"}

\* C6: a method of AppToken that returns an error returns the empty token;
\* when the exchange for an explicit id fails, GetToken returns the exchange
\* error around the cause and the empty token, whatever the body held.
C6_NoTokenWithError ==
    /\ (op.fn \in AppFns /\ pc = "returned" /\ ret.err # NoErr) => ret.token = Empty
    /\ (op.fn = "GetToken" /\ Len(resps) = 1 /\ resps[1].err # NoErr) =>
          /\ ret.err = Wrap("failed to create installation token", resps[1].err)
          /\ ret.token = Empty

C6_Witness ==
    /\ op.fn = "GetToken"
    /\ pc = "returned"
    /\ Len(resps) = 1
    /\ resps[1].err = E("non-2xx")
    /\ resps[1].token = <<"t">>
    /\ ret.token = Empty

LookupMsgs ==
    {"failed to find organization installation",
     "failed to find repository installation",
     "failed to find user installation"}

\* C7: once the lookup has failed it stays the only request of the run, the
\* method has returned the empty token and the lookup error in front of the
\* cause, and the run ends with that error, exit status 1 and no output.
C7_LookupFailureIsFinal ==
    (Len(resps) >= 1 /\ IsLookup(calls[1]) /\ resps[1].err # NoErr) =>
        /\ Len(calls) = 1
        /\ Len(resps) = 1
        /\ pc \in {"returned", "execute", "exited"}
        /\ ret.token = Empty
        /\ Len(ret.err) > 1
        /\ ret.err[1] \in LookupMsgs
        /\ Tail(ret.err) = resps[1].err
        /\ pc \in {"execute", "exited"} => cmdErr = Wrap("failed to get token", ret.err)
        /\ pc = "exited" => exitCode = 1 /\ stdout = << >>

C7_Witness ==
    /\ pc = "exited"
    /\ Len(calls) = 1
    /\ calls[1].kind = "org"
    /\ resps = <<[err |-> E("malformed body"), id |-> 0, token |-> Empty]>>
    /\ exitCode = 1

\* the call in progress was given an empty name
EmptyArgument ==
    \/ /\ op.fn \in {"GetTokenFromOrg", "GetTokenFromUser",
                     "GetInstallationIDFromOrg", "GetInstallationIDFromUser",
                     "GetInstallationIDFromRepo"}
       /\ op.a = Empty
    \/ /\ op.fn = "GetTokenFromRepo"
       /\ (op.a = Empty \/ op.b = Empty)

\* C8: a lookup entry point given an empty org, user, owner or repo argument
\* has returned an error, without a token or an id, and has issued no
\* request.
C8_EmptyNameFailsFast ==
    EmptyArgument =>
        /\ pc = "returned"
        /\ calls = << >>
        /\ resps = << >>
        /\ inflight = Nil
        /\ ret.err # NoErr
        /\ ret.token = Empty
        /\ ret.id = 0

C8_Witness ==
    /\ op.fn = "GetTokenFromRepo"
    /\ op.a = <<"a">>
    /\ op.b = Empty
    /\ pc = "returned"
    /\ ret.err = E("owner and repo name are required")

\* a repo string of exactly two non-empty segments
WellFormedRepo(r) ==
    /\ Len(Split(r)) = 2
    /\ Split(r)[1] # Empty
    /\ Split(r)[2] # Empty

\* C9: a non-empty repo string that is not two non-empty segments around one
\* "/" makes the repository lookup fail with the format error and no
\* request; every repository lookup request names a non-empty owner and a
\* non-empty repository.
C9_MalformedRepoRejected ==
    /\ (op.fn = "GetInstallationIDFromRepo" /\ op.a # Empty /\ ~WellFormedRepo(op.a)) =>
          /\ calls = << >>
          /\ ret.err = E("repo must be in format 'owner/repo'")
    /\ \A k \in 1..Len(calls) :
          calls[k].kind = "repo" =>
              /\ Len(calls[k].target) = 2
              /\ calls[k].target[1] # Empty
              /\ calls[k].target[2] # Empty

\* C10: every JWT either signer produces names the app id as its issuer,
\* expires 10 minutes after the clock reading, and is issued 660 seconds
\* before it expires.
C10_JWTWindow ==
    \A k \in 1..Len(signed) :
        /\ IssValue(signed[k].jwt.iss) = signed[k].appID
        /\ signed[k].jwt.exp = Unix(signed[k].now + 10 * Minute)
        /\ signed[k].jwt.exp - signed[k].jwt.iat = Unix(10 * Minute) + SkewSeconds

\* a key path that does not hold a readable RSA private key
BadKeyFiles == {"missing", "unreadable", "notpem", "notrsa"}

BadKeyRead == \E k \in 1..Len(keyReads) : keyReads[k] \in BadKeyFiles

\* C11: when the key path holds no file, an unreadable file, no PEM block or
\* no RSA private key, the run has failed in app.New with the key error:
\* nothing was signed, no AppToken exists, no request was issued or is in
\* flight, nothing is printed; auth.LoadPrivateKey fails on the same files.
C11_BadKeyStopsRun ==
    /\ BadKeyRead =>
          /\ signed = << >>
          /\ appToken = Nil
          /\ calls = << >>
          /\ inflight = Nil
          /\ pc \in {"execute", "exited"}
          /\ Len(cmdErr) > 2
          /\ SubSeq(cmdErr, 1, 2) = <<"failed to create app token", "failed to create client">>
          /\ stdout = << >>
          /\ pc = "exited" => exitCode = 1
    /\ \A f \in BadKeyFiles : LoadPrivateKey(f) # NoErr

C11_Witness ==
    /\ pc = "exited"
    /\ keyReads = <<"notrsa">>
    /\ signed = << >>
    /\ appToken = Nil
    /\ exitCode = 1

\* the number a numeric variable stands for; 0 when it is not set
EnvNumber(value) == IF value = Empty THEN 0 ELSE ParseInt(value).val

\* a numeric variable that is read and is no number
Unparsable(flag, value) ==
    flag = 0 /\ value # Empty /\ ParseInt(value).err # NoErr

PreRunErrs == {"invalid GH_APP_TOKEN_APP_ID", "invalid GH_APP_TOKEN_INSTALLATION_ID"}

\* PersistentPreRunE, from the flags (unprimed) and the environment it reads
PreRunMerges ==
    pc = "prerun" =>
        /\ appID # 0 => appID' = appID
        /\ privateKeyPath # Empty => privateKeyPath' = privateKeyPath
        /\ installationID # 0 => installationID' = installationID
        /\ org # Empty => org' = org
        /\ repo # Empty => repo' = repo
        /\ user # Empty => user' = user
        /\ IF \/ Unparsable(appID, env'.appID)
              \/ Unparsable(installationID, env'.installationID)
           THEN /\ pc' = "execute"
                /\ Len(cmdErr') = 2
                /\ cmdErr'[1] \in PreRunErrs
           ELSE /\ pc' = "flaggroups"
                /\ cmdErr' = NoErr
                /\ appID = 0 => appID' = EnvNumber(env'.appID)
                /\ privateKeyPath = Empty => privateKeyPath' = env'.privateKey
                /\ installationID = 0 => installationID' = EnvNumber(env'.installationID)
                /\ org = Empty => org' = env'.org
                /\ repo = Empty => repo' = env'.repo
                /\ user = Empty => user' = env'.user

\* the run failed in PersistentPreRunE
PreRunFailed == cmdErr # NoErr /\ cmdErr[1] \in PreRunErrs

\* C12: PersistentPreRunE leaves every setting given by a flag as it is,
\* whatever the environment holds; when it returns no error every setting
\* not given by a flag has the value of its variable; a numeric variable
\* that is read and is no number makes it return an error, and the run then
\* ends without validateFlags, without a key read, a signature or a request.
C12_FlagBeforeEnv ==
    /\ [][PreRunMerges]_vars
    /\ [](PreRunFailed =>
             /\ pc \in {"execute", "exited"}
             /\ keyReads = << >>
             /\ signed = << >>
             /\ appToken = Nil
             /\ calls = << >>
             /\ stdout = << >>
             /\ pc = "exited" => exitCode = 1)

C12_Witness ==
    /\ pc = "exited"
    /\ exitCode = 0
    /\ changed = {"repo"}
    /\ repo = <<"a", "/", "a">>
    /\ env.repo = <<"b", "/", "b">>
    /\ env.appID = <<"2">>
    /\ appID = 2
    /\ env.privateKey = <<"e">>
    /\ privateKeyPath = <<"e">>

\* the run has ended in FAIL with nothing printed
EndedInFail == pc = "exited" /\ exitCode = 1 /\ stdout = << >> /\ stderr # << >>

\* the run has ended in SUCCESS
EndedInSuccess == pc = "exited" /\ exitCode = 0 /\ Len(stdout) = 1 /\ stderr = << >>

C14_NoRetry ==
    /\ Cardinality(Lookups(calls)) <= 1
    /\ Cardinality(Exchanges(calls)) <= 1
    /\ Lookups(calls) \subseteq {1}
    /\ Len(resps) <= Len(calls)
    /\ Len(calls) <= Len(resps) + 1
    /\ \A k \in 1..Len(resps) :
          resps[k].err # NoErr =>
              /\ k = Len(calls)
              /\ inflight = Nil
              /\ pc \in {"returned", "execute", "exited"}
              /\ ret.err # NoErr
              /\ pc \in {"execute", "exited"} => cmdErr # NoErr
              /\ pc = "exited" => exitCode = 1
    /\ (pc = "exited" /\ exitCode = 0) =>
          /\ Cardinality(Exchanges(calls)) = 1
          /\ Len(resps) = Len(calls)
          /\ \A k \in 1..Len(resps) : resps[k].err = NoErr

C14_Witness ==
    /\ pc = "exited"
    /\ exitCode = 1
    /\ Len(calls) = 2
    /\ calls[1].kind = "org"
    /\ calls[2].kind = "exchange"
    /\ resps[1].err = NoErr
    /\ resps[2].err = E("network")

\* C15: getToken called with no selector set, or with two or more of
\* installation id, org, repo and user set, returns an error and issues no
\* request.
C15_AmbiguousSelectorIsError ==
    (pc # "getToken" /\ SelectorCount # 1) =>
        /\ pc = "returned"
        /\ calls = << >>
        /\ inflight = Nil
        /\ ret.err # NoErr
        /\ ret.token = Empty

\* the JWTs the requests cs were authenticated with
JWTsOf(cs) == {cs[k].jwt : k \in 1..Len(cs)}

\* a method of AppToken begins while the requests of the method called
\* before it are still on record
NextIssuance ==
    /\ op.fn \in AppFns
    /\ op'.fn \in AppFns
    /\ op'.n = op.n + 1

\* C16: over a sequence of calls of GetToken and GetTokenFrom*, no request
\* of one call carries a JWT that a request of the call before it carried,
\* and once a call has returned the AppToken no longer holds the JWT its
\* requests carried.
C16_JWTUsedOnce ==
    /\ [][NextIssuance => JWTsOf(calls') \cap JWTsOf(calls) = {}]_vars
    /\ []((op.fn \in AppFns /\ pc = "returned" /\ appToken # Nil) =>
             appToken.jwt \notin JWTsOf(calls))

ExchangeFns == {"GetToken", "GetInstallationToken"}

\* C17: GetToken and auth.GetInstallationToken send the exchange for the
\* id they are given, zero included, and whenever an exchange has answered
\* without error the call returns no error and the token field of the
\* answer as it is, the empty string included.
C17_TokenNotValidated ==
    /\ op.fn \in ExchangeFns =>
          /\ Len(calls) = 1
          /\ calls[1].kind = "exchange"
          /\ calls[1].id = op.id
    /\ (/\ op.fn \in AppFns \cup ExchangeFns
        /\ pc = "returned"
        /\ Len(calls) >= 1
        /\ Len(resps) = Len(calls)
        /\ calls[Len(calls)].kind = "exchange"
        /\ resps[Len(resps)].err = NoErr) =>
          /\ ret.err = NoErr
          /\ ret.token = resps[Len(resps)].token

C17_Witness ==
    /\ op.fn = "GetToken"
    /\ op.id = 0
    /\ pc = "returned"
    /\ calls[1].id = 0
    /\ resps = <<[err |-> NoErr, id |-> 0, token |-> Empty]>>
    /\ ret = [token |-> Empty, id |-> 0, err |-> NoErr]

\* why the call that has just returned failed: the precondition its
\* arguments broke, or the request that failed
ErrKind ==
    IF pc # "returned" \/ ret.err = NoErr THEN "none"
    ELSE IF resps # << >>
    THEN IF IsLookup(calls[Len(resps)]) THEN "lookup" ELSE "exchange"
    ELSE IF op.fn \in {"GetTokenFromOrg", "GetInstallationIDFromOrg"} THEN "empty org"
    ELSE IF op.fn \in {"GetTokenFromUser", "GetInstallationIDFromUser"} THEN "empty user"
    ELSE IF op.fn = "GetTokenFromRepo"
    THEN IF op.a = Empty /\ op.b # Empty THEN "empty owner"
         ELSE IF op.a # Empty /\ op.b = Empty THEN "empty repo"
         ELSE "both empty"
    ELSE IF op.fn = "GetInstallationIDFromRepo" /\ op.a # Empty THEN "segment count"
    ELSE "other"

ErrKinds == {"empty org", "empty user", "empty owner", "empty repo",
             "segment count", "lookup", "exchange"}

\* C18: when two calls in a row fail for different reasons among empty org,
\* empty user, empty owner, empty repository name, a repo string that is
\* not two segments, a failed lookup and a failed exchange, they return
\* different errors.
C18_DistinctPreconditionErrors ==
    [][(/\ op'.n = op.n + 1
        /\ ErrKind \in ErrKinds
        /\ ErrKind' \in ErrKinds
        /\ ErrKind' # ErrKind) => ret'.err # ret.err]_vars

\* the environment names the selector g
EnvSelects(g) ==
    CASE g = "installation-id" ->
             /\ env.installationID # Empty
             /\ ParseInt(env.installationID).err = NoErr
             /\ ParseInt(env.installationID).val # 0
      [] g = "org" -> env.org # Empty
      [] g = "repo" -> env.repo # Empty
      [] g = "user" -> env.user # Empty

\* the selector g has the value of its variable
LoadedFromEnv(g) ==
    CASE g = "installation-id" -> installationID = ParseInt(env.installationID).val
      [] g = "org" -> org = env.org
      [] g = "repo" -> repo = env.repo
      [] g = "user" -> user = env.user

ConflictErrs ==
    {E("--installation-id and --org, --repo, or --user cannot be used together"),
     E("--org, --repo, or --user cannot be used together")}

\* C19: when one selector is given by flag and the environment names another
\* one, PersistentPreRunE (unless it fails on an unparsable number) loads the
\* other from the environment beside the flag's; the run then ends in
\* validateFlags, with a selector conflict once app id and key path are
\* present, without a key read, a signature, a client or a request, and
\* exits 1 with nothing printed.
C19_ExclusionOnMergedValues ==
    \A f \in Selectors, g \in Selectors :
        (AfterPreRun /\ ~PreRunFailed /\ changed = {f} /\ g # f /\ EnvSelects(g)) =>
            /\ LoadedFromEnv(g)
            /\ SelectorCount >= 2
            /\ pc \in {"flaggroups", "run", "execute", "exited"}
            /\ pc \in {"execute", "exited"} =>
                  /\ cmdErr \in ValidateErrs
                  /\ (appID # 0 /\ privateKeyPath # Empty) => cmdErr \in ConflictErrs
            /\ keyReads = << >>
            /\ signed = << >>
            /\ appToken = Nil
            /\ calls = << >>
            /\ stdout = << >>
            /\ pc = "exited" => exitCode = 1

C19_Witness ==
    /\ pc = "exited"
    /\ changed = {"repo"}
    /\ repo = <<"a", "/", "a">>
    /\ env.org = <<"p">>
    /\ org = <<"p">>
    /\ cmdErr = E("--org, --repo, or --user cannot be used together")
    /\ exitCode = 1
    /\ keyReads = << >>

====
